---- MODULE Spec2Model ----
(***************************************************************************)
(* canonref / bibleref: NewTable, Parse, BibleRef.Validate,                *)
(* BibleRef.Format / String, NormalizeAlias and NormalizeVerseRange.       *)
(*                                                                         *)
(* A Go string is modelled as a sequence of characters; a character is a   *)
(* one-character TLA+ string for ASCII and the name "U+XXXX" of the code   *)
(* point otherwise.  The Go code works on bytes; for valid UTF-8 the byte  *)
(* level searches, replacements and the ASCII tests tail[i] = ':' and      *)
(* '0' <= tail[i] <= '9' give the same result on code points.              *)
(* A Go pointer is a sequence of length at most one: <<>> is nil.          *)
(***************************************************************************)
EXTENDS Integers, Sequences, FiniteSets, TLC

VARIABLES books, tbl, tblErr, s, ref, err, prev, out, mode, op

vars == <<books, tbl, tblErr, s, ref, err, prev, out, mode, op>>

(***************************************************************************)
(* Pointers                                                                *)
(***************************************************************************)
Nil == <<>>

Ptr(v) == <<v>>

IsNil(p) == Len(p) = 0

\* v bound to the parameter of F, as a local variable of the code is
Bind(v, F(_)) == F(v)

(***************************************************************************)
(* Characters and the Go standard library functions the code calls         *)
(***************************************************************************)
Digits == <<"0", "1", "2", "3", "4", "5", "6", "7", "8", "9">>

UpperCase == <<"A", "B", "C", "D", "E", "F", "G", "H", "I", "J", "K", "L", "M",
               "N", "O", "P", "Q", "R", "S", "T", "U", "V", "W", "X", "Y", "Z",
               "U+00C2">>

LowerCase == <<"a", "b", "c", "d", "e", "f", "g", "h", "i", "j", "k", "l", "m",
               "n", "o", "p", "q", "r", "s", "t", "u", "v", "w", "x", "y", "z",
               "U+00E2">>

IsDigit(c) == \E i \in 1..10 : Digits[i] = c

DigitVal(c) == (CHOOSE i \in 1..10 : Digits[i] = c) - 1

\* unicode.IsSpace, on the white space characters the model uses
IsSpace(c) == c \in {" ", "\t", "\n", "\r"}

IsUpper(c) == \E i \in 1..Len(UpperCase) : UpperCase[i] = c

IsLower(c) == \E i \in 1..Len(LowerCase) : LowerCase[i] = c

LowerOf(c) ==
    IF IsUpper(c) THEN LowerCase[CHOOSE i \in 1..Len(UpperCase) : UpperCase[i] = c]
    ELSE c

UpperOf(c) ==
    IF IsLower(c) THEN UpperCase[CHOOSE i \in 1..Len(LowerCase) : LowerCase[i] = c]
    ELSE c

\* strings.ToLower
ToLower(str) == [i \in 1..Len(str) |-> LowerOf(str[i])]

Drop(str, n) == SubSeq(str, n + 1, Len(str))

HasPrefix(str, p) == Len(str) >= Len(p) /\ SubSeq(str, 1, Len(p)) = p

RECURSIVE TrimLeft(_)
TrimLeft(str) ==
    IF Len(str) > 0 /\ IsSpace(str[1]) THEN TrimLeft(Tail(str)) ELSE str

RECURSIVE TrimRight(_)
TrimRight(str) ==
    IF Len(str) > 0 /\ IsSpace(str[Len(str)])
    THEN TrimRight(SubSeq(str, 1, Len(str) - 1))
    ELSE str

\* strings.TrimSpace
TrimSpace(str) == TrimRight(TrimLeft(str))

\* strings.ReplaceAll with a non-empty old: non-overlapping, left to right
RECURSIVE ReplaceAll(_, _, _)
ReplaceAll(str, old, new) ==
    IF Len(str) = 0 THEN <<>>
    ELSE IF HasPrefix(str, old) THEN new \o ReplaceAll(Drop(str, Len(old)), old, new)
    ELSE <<str[1]>> \o ReplaceAll(Tail(str), old, new)

\* strings.Index, 1-based; 0 when sub does not occur
Index(str, sub) ==
    IF \E i \in 1..Len(str) : HasPrefix(Drop(str, i - 1), sub)
    THEN CHOOSE i \in 1..Len(str) :
            /\ HasPrefix(Drop(str, i - 1), sub)
            /\ \A j \in 1..(i - 1) : ~HasPrefix(Drop(str, j - 1), sub)
    ELSE 0

\* strings.Contains
Contains(str, sub) == Index(str, sub) > 0

\* strings.Split with a non-empty separator
RECURSIVE Split(_, _)
Split(str, sep) ==
    Bind(Index(str, sep), LAMBDA i :
        IF i = 0 THEN <<str>>
        ELSE <<SubSeq(str, 1, i - 1)>> \o Split(Drop(str, i + Len(sep) - 1), sep))

RECURSIVE FirstSpace(_, _)
FirstSpace(str, i) ==
    IF i > Len(str) \/ IsSpace(str[i]) THEN i ELSE FirstSpace(str, i + 1)

\* strings.Fields
RECURSIVE Fields(_)
Fields(str) ==
    Bind(TrimLeft(str), LAMBDA rest :
        IF Len(rest) = 0 THEN <<>>
        ELSE Bind(FirstSpace(rest, 1), LAMBDA i :
            <<SubSeq(rest, 1, i - 1)>> \o Fields(Drop(rest, i - 1))))

\* strings.Join
RECURSIVE Join(_, _)
Join(elems, sep) ==
    IF Len(elems) = 0 THEN <<>>
    ELSE IF Len(elems) = 1 THEN elems[1]
    ELSE elems[1] \o sep \o Join(Tail(elems), sep)

RECURSIVE DigitsValue(_, _)
DigitsValue(str, acc) ==
    IF Len(str) = 0 THEN acc ELSE DigitsValue(Tail(str), 10 * acc + DigitVal(str[1]))

RECURSIVE StripZeros(_)
StripZeros(str) ==
    IF Len(str) > 1 /\ str[1] = "0" THEN StripZeros(Tail(str)) ELSE str

\* the decimal digits of 2^63 - 1 (int is 64 bits wide on the supported builds)
MaxInt64Digits == <<"9", "2", "2", "3", "3", "7", "2", "0", "3", "6",
                    "8", "5", "4", "7", "7", "5", "8", "0", "7">>

RECURSIVE DigitsLeq(_, _)
DigitsLeq(a, b) ==
    IF Len(a) = 0 THEN TRUE
    ELSE IF DigitVal(a[1]) < DigitVal(b[1]) THEN TRUE
    ELSE IF DigitVal(a[1]) > DigitVal(b[1]) THEN FALSE
    ELSE DigitsLeq(Tail(a), Tail(b))

\* the magnitude fits an int (the one extra negative value -2^63 is left out)
InIntRange(digits) ==
    \/ Len(StripZeros(digits)) < Len(MaxInt64Digits)
    \/ /\ Len(StripZeros(digits)) = Len(MaxInt64Digits)
       /\ DigitsLeq(StripZeros(digits), MaxInt64Digits)

\* strconv.Atoi: an optional sign, then one or more decimal digits
Atoi(str) ==
    LET signed == Len(str) > 0 /\ str[1] \in {"+", "-"}
        body   == IF signed THEN Tail(str) ELSE str
        wellFormed == Len(body) > 0 /\ \A i \in 1..Len(body) : IsDigit(body[i])
    IN  IF wellFormed /\ InIntRange(body)
        THEN [ok |-> TRUE,
              val |-> IF signed /\ str[1] = "-" THEN 0 - DigitsValue(body, 0)
                      ELSE DigitsValue(body, 0)]
        ELSE [ok |-> FALSE, val |-> 0]

RECURSIVE NatDigits(_)
NatDigits(n) ==
    IF n < 10 THEN <<Digits[n + 1]>> ELSE NatDigits(n \div 10) \o <<Digits[(n % 10) + 1]>>

\* strconv.Itoa and the %d verb of fmt.Sprintf
Itoa(n) == IF n < 0 THEN <<"-">> \o NatDigits(0 - n) ELSE NatDigits(n)

(***************************************************************************)
(* util                                                                    *)
(***************************************************************************)
\* the en-dash character itself, U+2013, as callers and tests write it
EnDashRune == "U+2013"

\* const EnDash: the three characters U+00E2 U+20AC U+201C of the source file
EnDash == <<"U+00E2", "U+20AC", "U+201C">>

Hyphen == <<"-">>

\* VerseRange.String
VerseRangeString(v) ==
    IF IsNil(v.EndVerse) THEN Itoa(v.StartVerse)
    ELSE Itoa(v.StartVerse) \o EnDash \o Itoa(v.EndVerse[1])

(***************************************************************************)
(* Normalisation                                                           *)
(***************************************************************************)
\* NormalizeAlias without the conversion to lower case
NormalizeAliasKeepCase(str) ==
    LET r1  == TrimSpace(str)
        r3  == ReplaceAll(r1, <<".">>, <<>>)
        r4  == ReplaceAll(r3, EnDash, Hyphen)
        r5  == ReplaceAll(r4, <<"i", "i", "i", " ">>, <<"3", " ">>)
        r6  == ReplaceAll(r5, <<"i", "i", " ">>, <<"2", " ">>)
        r7  == ReplaceAll(r6, <<"i", " ">>, <<"1", " ">>)
        r8  == ReplaceAll(r7, <<"U+2019">>, <<"'">>)
        r9  == ReplaceAll(r8, <<"U+2018">>, <<"'">>)
        r10 == ReplaceAll(r9, <<"U+201C">>, <<"\"">>)
        r11 == ReplaceAll(r10, <<"U+201D">>, <<"\"">>)
    IN  r11

NormalizeAlias(str) ==
    LET r1  == TrimSpace(str)
        r2  == ToLower(r1)
        r3  == ReplaceAll(r2, <<".">>, <<>>)
        r4  == ReplaceAll(r3, EnDash, Hyphen)
        r5  == ReplaceAll(r4, <<"i", "i", "i", " ">>, <<"3", " ">>)
        r6  == ReplaceAll(r5, <<"i", "i", " ">>, <<"2", " ">>)
        r7  == ReplaceAll(r6, <<"i", " ">>, <<"1", " ">>)
        r8  == ReplaceAll(r7, <<"U+2019">>, <<"'">>)
        r9  == ReplaceAll(r8, <<"U+2018">>, <<"'">>)
        r10 == ReplaceAll(r9, <<"U+201C">>, <<"\"">>)
        r11 == ReplaceAll(r10, <<"U+201D">>, <<"\"">>)
    IN  r11

NormalizeVerseRange(str) ==
    LET r1 == TrimSpace(str)
        r2 == ReplaceAll(r1, Hyphen, EnDash)
        r3 == ReplaceAll(r2, <<" ">>, <<>>)
    IN  r3

(***************************************************************************)
(* Errors: BibleRefError{Kind, Cause}.  Message and Err carry no logic.    *)
(***************************************************************************)
KindParse == 0

KindUnknownBook == 1

KindInvalidBook == 2

KindInvalidChapter == 3

KindInvalidVerse == 4

KindUnsupportedFormat == 5

\* &BibleRefError{Kind: kind}: an error without a cause
NewError(kind) == Ptr([Kind |-> kind, Cause |-> Nil])

\* &BibleRefError{Kind: kind, Cause: cause}, cause a non-nil *BibleRefError
WrapError(kind, cause) == Ptr([Kind |-> kind, Cause |-> cause])

(***************************************************************************)
(* Book and Table                                                          *)
(***************************************************************************)
\* Book.Validate without the check of Chapters
BookValidateNoChapters(b) ==
    IF Len(b.OSIS) = 0 THEN NewError(KindInvalidBook)
    ELSE IF Len(b.Name) = 0 THEN NewError(KindInvalidBook)
    ELSE IF b.Order < 1 THEN NewError(KindInvalidBook)
    ELSE Nil

\* Book.Validate: nil, or the error of the first failing check
BookValidate(b) ==
    IF Len(b.OSIS) = 0 THEN NewError(KindInvalidBook)
    ELSE IF Len(b.Name) = 0 THEN NewError(KindInvalidBook)
    ELSE IF b.Chapters < 1 THEN NewError(KindInvalidBook)
    ELSE IF b.Order < 1 THEN NewError(KindInvalidBook)
    ELSE Nil

\* m[k] = v on a Go map
MapPut(m, k, v) == [x \in (DOMAIN m) \cup {k} |-> IF x = k THEN v ELSE m[x]]

\* func contains(m, key)
contains(m, key) == key \in DOMAIN m

EmptyMap == [x \in {} |-> Nil]

\* the inner loop of NewTable, an alias already in the map being left alone
RECURSIVE AddAliasesKeepFirst(_, _, _)
AddAliasesKeepFirst(byAlias, aliases, osis) ==
    IF Len(aliases) = 0 THEN byAlias
    ELSE IF contains(byAlias, NormalizeAlias(aliases[1]))
        THEN AddAliasesKeepFirst(byAlias, Tail(aliases), osis)
    ELSE AddAliasesKeepFirst(MapPut(byAlias, NormalizeAlias(aliases[1]), osis),
                             Tail(aliases), osis)

\* the inner loop of NewTable over book.Aliases
RECURSIVE AddAliases(_, _, _)
AddAliases(byAlias, aliases, osis) ==
    IF Len(aliases) = 0 THEN byAlias
    ELSE AddAliases(MapPut(byAlias, NormalizeAlias(aliases[1]), osis), Tail(aliases), osis)

\* one iteration of the loop of NewTable for a book that passed Validate
AddBook(t, book) ==
    Bind(AddAliases(t.ByAlias, book.Aliases, book.OSIS), LAMBDA byAlias :
    Bind(NormalizeAlias(book.OSIS), LAMBDA key :
        [ByOsis  |-> MapPut(t.ByOsis, book.OSIS, book),
         ByAlias |-> IF ~contains(byAlias, key) THEN MapPut(byAlias, key, book.OSIS)
                     ELSE byAlias]))

\* the loop of NewTable: returns at the first book that fails Validate
RECURSIVE NewTableLoop(_, _)
NewTableLoop(t, bs) ==
    IF Len(bs) = 0 THEN [tbl |-> Ptr(t), err |-> Nil]
    ELSE Bind(BookValidate(bs[1]), LAMBDA verr :
            IF ~IsNil(verr) THEN [tbl |-> Nil, err |-> verr]
            ELSE NewTableLoop(AddBook(t, bs[1]), Tail(bs)))

\* NewTable(books): the table and the error it returns
NewTable(bs) == NewTableLoop([ByOsis |-> EmptyMap, ByAlias |-> EmptyMap], bs)

\* the inner loop of the earlier NewTable: the aliases are registered as written
RECURSIVE AddAliasesPre102(_, _, _)
AddAliasesPre102(byAlias, aliases, osis) ==
    IF Len(aliases) = 0 THEN byAlias
    ELSE AddAliasesPre102(MapPut(byAlias, aliases[1], osis), Tail(aliases), osis)

\* the loop of the earlier NewTable
RECURSIVE NewTableLoopPre102(_, _)
NewTableLoopPre102(t, bs) ==
    IF Len(bs) = 0 THEN [tbl |-> Ptr(t), err |-> Nil]
    ELSE Bind(BookValidate(bs[1]), LAMBDA verr :
            IF ~IsNil(verr) THEN [tbl |-> Nil, err |-> verr]
            ELSE NewTableLoopPre102(
                    [ByOsis  |-> MapPut(t.ByOsis, bs[1].OSIS, bs[1]),
                     ByAlias |-> AddAliasesPre102(t.ByAlias, bs[1].Aliases, bs[1].OSIS)],
                    Tail(bs)))

\* NewTable(books) as it was before the OSIS codes were registered as aliases
NewTablePre102(bs) == NewTableLoopPre102([ByOsis |-> EmptyMap, ByAlias |-> EmptyMap], bs)

(***************************************************************************)
(* BibleRef                                                                *)
(***************************************************************************)
FormatOSIS == 0

FormatHuman == 1

FormatCanonical == 2

\* BibleRef.String
String(r) ==
    IF IsNil(r.Verse) THEN r.OSIS \o <<" ">> \o Itoa(r.Chapter)
    ELSE r.OSIS \o <<" ">> \o Itoa(r.Chapter) \o <<":">> \o VerseRangeString(r.Verse[1])

\* tbl.ByOsis[osis].Name: the zero Book, with the empty name, for a missing key
BookName(t, osis) == IF osis \in DOMAIN t.ByOsis THEN t.ByOsis[osis].Name ELSE <<>>

\* BibleRef.Format(f, tbl); t is the table itself and is read by FormatHuman only
Format(r, f, t) ==
    IF f = FormatOSIS THEN
        IF IsNil(r.Verse) THEN r.OSIS \o <<".">> \o Itoa(r.Chapter)
        ELSE r.OSIS \o <<".">> \o Itoa(r.Chapter) \o <<".">> \o VerseRangeString(r.Verse[1])
    ELSE IF f = FormatHuman THEN
        IF IsNil(r.Verse) THEN BookName(t, r.OSIS) \o <<" ">> \o Itoa(r.Chapter)
        ELSE BookName(t, r.OSIS) \o <<" ">> \o Itoa(r.Chapter) \o <<":">>
                \o VerseRangeString(r.Verse[1])
    ELSE IF f = FormatCanonical THEN
        IF IsNil(r.Verse) THEN r.OSIS \o <<" ">> \o Itoa(r.Chapter)
        ELSE r.OSIS \o <<" ">> \o Itoa(r.Chapter) \o <<":">> \o VerseRangeString(r.Verse[1])
    ELSE String(r)

\* BibleRef.Validate without the check of the direction of the range
ValidateNoRangeCheck(r, t) ==
    IF r.OSIS \notin DOMAIN t.ByOsis THEN NewError(KindUnknownBook)
    ELSE IF r.Chapter < 1 \/ r.Chapter > t.ByOsis[r.OSIS].Chapters
        THEN NewError(KindInvalidChapter)
    ELSE IF ~IsNil(r.Verse) /\ r.Verse[1].StartVerse < 1 THEN NewError(KindInvalidVerse)
    ELSE Nil

\* BibleRef.Validate with the checks of the verse ahead of the check of the chapter
ValidateVerseFirst(r, t) ==
    IF r.OSIS \notin DOMAIN t.ByOsis THEN NewError(KindUnknownBook)
    ELSE IF ~IsNil(r.Verse) /\ r.Verse[1].StartVerse < 1 THEN NewError(KindInvalidVerse)
    ELSE IF /\ ~IsNil(r.Verse)
            /\ ~IsNil(r.Verse[1].EndVerse)
            /\ r.Verse[1].EndVerse[1] < r.Verse[1].StartVerse
        THEN NewError(KindInvalidVerse)
    ELSE IF r.Chapter < 1 \/ r.Chapter > t.ByOsis[r.OSIS].Chapters
        THEN NewError(KindInvalidChapter)
    ELSE Nil

\* BibleRef.Validate(tbl): nil, or the error of the first failing check
Validate(r, t) ==
    IF r.OSIS \notin DOMAIN t.ByOsis THEN NewError(KindUnknownBook)
    ELSE IF r.Chapter < 1 \/ r.Chapter > t.ByOsis[r.OSIS].Chapters
        THEN NewError(KindInvalidChapter)
    ELSE IF ~IsNil(r.Verse) /\ r.Verse[1].StartVerse < 1 THEN NewError(KindInvalidVerse)
    ELSE IF /\ ~IsNil(r.Verse)
            /\ ~IsNil(r.Verse[1].EndVerse)
            /\ r.Verse[1].EndVerse[1] < r.Verse[1].StartVerse
        THEN NewError(KindInvalidVerse)
    ELSE Nil

(***************************************************************************)
(* Parsing                                                                 *)
(***************************************************************************)
RECURSIVE DigitRun(_, _)
\* the loop of parseTail: the number of leading digits, from i digits on
DigitRun(tail, i) ==
    IF i < Len(tail) /\ IsDigit(tail[i + 1]) THEN DigitRun(tail, i + 1) ELSE i

\* parseTail(tail): the normalised tail and the error
parseTail(tail) ==
    IF Len(tail) = 0 THEN [str |-> <<>>, err |-> NewError(KindParse)]
    ELSE IF ~IsDigit(tail[1]) THEN [str |-> <<>>, err |-> NewError(KindInvalidChapter)]
    ELSE Bind(DigitRun(tail, 0), LAMBDA i :
        IF i = Len(tail) THEN [str |-> tail, err |-> Nil]
        ELSE IF tail[i + 1] # ":" THEN [str |-> <<>>, err |-> NewError(KindParse)]
        ELSE IF Len(Drop(tail, i + 1)) = 0
            THEN [str |-> <<>>, err |-> NewError(KindInvalidVerse)]
        ELSE [str |-> SubSeq(tail, 1, i) \o <<":">> \o NormalizeVerseRange(Drop(tail, i + 1)),
              err |-> Nil])

\* parseVerseRange(s, parts): the verse range and the error
parseVerseRange(str, parts) ==
    IF Len(parts) # 2 THEN [verse |-> Nil, err |-> NewError(KindParse)]
    ELSE Bind(Atoi(parts[1]), LAMBDA startVerse :
         Bind(Atoi(parts[2]), LAMBDA endVerse :
            IF ~startVerse.ok THEN [verse |-> Nil, err |-> NewError(KindInvalidVerse)]
            ELSE IF ~endVerse.ok THEN [verse |-> Nil, err |-> NewError(KindInvalidVerse)]
            ELSE [verse |-> Ptr([StartVerse |-> startVerse.val,
                                 EndVerse   |-> Ptr(endVerse.val)]),
                  err |-> Nil]))

\* the verse half of parseChapterVerse, after the chapter has been read
parseVerseStr(chapter, verseStr) ==
    IF Contains(verseStr, EnDash)
    THEN Bind(parseVerseRange(verseStr, Split(verseStr, EnDash)), LAMBDA vr :
            IF ~IsNil(vr.err) THEN [chapter |-> 0, verse |-> Nil, err |-> vr.err]
            ELSE [chapter |-> chapter, verse |-> vr.verse, err |-> Nil])
    ELSE Bind(Atoi(verseStr), LAMBDA startVerse :
            IF ~startVerse.ok
            THEN [chapter |-> 0, verse |-> Nil, err |-> NewError(KindInvalidVerse)]
            ELSE [chapter |-> chapter,
                  verse   |-> Ptr([StartVerse |-> startVerse.val, EndVerse |-> Nil]),
                  err     |-> Nil])

\* parseChapterVerse without the check for more than two parts
parseChapterVerseAnyParts(str) ==
    Bind(Split(str, <<":">>), LAMBDA parts :
        IF Len(parts) = 0 THEN [chapter |-> 0, verse |-> Nil, err |-> NewError(KindParse)]
        ELSE Bind(Atoi(parts[1]), LAMBDA chapter :
            IF ~chapter.ok
            THEN [chapter |-> 0, verse |-> Nil, err |-> NewError(KindInvalidChapter)]
            ELSE IF Len(parts) = 1
                THEN [chapter |-> chapter.val, verse |-> Nil, err |-> Nil]
            ELSE parseVerseStr(chapter.val, NormalizeVerseRange(parts[2]))))

\* parseChapterVerse(s): the chapter, the verse range and the error
parseChapterVerse(str) ==
    Bind(Split(str, <<":">>), LAMBDA parts :
        IF Len(parts) = 0 THEN [chapter |-> 0, verse |-> Nil, err |-> NewError(KindParse)]
        ELSE IF Len(parts) > 2
            THEN [chapter |-> 0, verse |-> Nil, err |-> NewError(KindParse)]
        ELSE Bind(Atoi(parts[1]), LAMBDA chapter :
            IF ~chapter.ok
            THEN [chapter |-> 0, verse |-> Nil, err |-> NewError(KindInvalidChapter)]
            ELSE IF Len(parts) = 1
                THEN [chapter |-> chapter.val, verse |-> Nil, err |-> Nil]
            ELSE parseVerseStr(chapter.val, NormalizeVerseRange(parts[2]))))

\* the tail parser of parseRefString: parseTail, then parseChapterVerse on its result
parseTailChapterVerse(tail) ==
    Bind(parseTail(tail), LAMBDA chapterVerseStr :
        IF ~IsNil(chapterVerseStr.err)
        THEN [chapter |-> 0, verse |-> Nil, err |-> chapterVerseStr.err]
        ELSE parseChapterVerse(chapterVerseStr.str))

\* the end of parseRefString: the reference is built and validated
buildRef(book, cv, t) ==
    IF ~IsNil(cv.err) THEN [ref |-> Nil, err |-> cv.err]
    ELSE IF ~IsNil(cv.verse) /\ cv.verse[1].StartVerse < 1
        THEN [ref |-> Nil, err |-> NewError(KindInvalidVerse)]
    ELSE Bind([OSIS |-> book.OSIS, Chapter |-> cv.chapter, Verse |-> cv.verse], LAMBDA r :
         Bind(Validate(r, t), LAMBDA verr :
            IF ~IsNil(verr) THEN [ref |-> Nil, err |-> verr]
            ELSE [ref |-> Ptr(r), err |-> Nil]))

\* parseRefString from the split on: book and tail parts, lookup, chapter and verse
parseFields(fields, t) ==
    Bind(NormalizeAlias(Join(SubSeq(fields, 1, Len(fields) - 1), <<" ">>)), LAMBDA bookStr :
    Bind(parseTail(fields[Len(fields)]), LAMBDA chapterVerseStr :
    Bind(IF bookStr \in DOMAIN t.ByAlias THEN t.ByAlias[bookStr] ELSE bookStr, LAMBDA bookOsis :
        IF ~IsNil(chapterVerseStr.err) THEN [ref |-> Nil, err |-> chapterVerseStr.err]
        ELSE IF bookOsis \notin DOMAIN t.ByOsis
            THEN [ref |-> Nil, err |-> NewError(KindUnknownBook)]
        ELSE buildRef(t.ByOsis[bookOsis], parseChapterVerse(chapterVerseStr.str), t))))

\* parseRefString without the check of the number of fields
parseRefStringAnyFields(str, t) ==
    Bind(TrimSpace(str), LAMBDA trimmed :
        IF Len(trimmed) = 0 THEN [ref |-> Nil, err |-> NewError(KindParse)]
        ELSE parseFields(Fields(trimmed), t))

\* parseRefString(s, tbl): the reference and the error
parseRefString(str, t) ==
    Bind(TrimSpace(str), LAMBDA trimmed :
        IF Len(trimmed) = 0 THEN [ref |-> Nil, err |-> NewError(KindParse)]
        ELSE Bind(Fields(trimmed), LAMBDA fields :
            IF Len(fields) < 2 THEN [ref |-> Nil, err |-> NewError(KindParse)]
            ELSE parseFields(fields, t)))

\* doParse(s, tbl): parseRefString, then Validate once more
doParse(str, t) ==
    Bind(parseRefString(str, t), LAMBDA res :
        IF ~IsNil(res.err) THEN [ref |-> Nil, err |-> res.err]
        ELSE Bind(Validate(res.ref[1], t), LAMBDA verr :
            IF ~IsNil(verr) THEN [ref |-> Nil, err |-> verr]
            ELSE [ref |-> res.ref, err |-> Nil]))

\* Parse(s, tbl): every failure of doParse is wrapped in a KindParse error
Parse(str, t) ==
    Bind(doParse(str, t), LAMBDA res :
        IF ~IsNil(res.err) THEN [ref |-> Nil, err |-> WrapError(KindParse, res.err)]
        ELSE [ref |-> res.ref, err |-> Nil])

(***************************************************************************)
(* Bounds and the inputs of the calls                                      *)
(***************************************************************************)
MaxBooks == 2

MaxChapter == 3

MaxVerse == 2

MaxLen == 3

Proverbs == [OSIS |-> <<"P", "r">>, Name |-> <<"P", "r", "o", "v", "e", "r", "b", "s">>,
             Aliases |-> << <<"p", "r", "o", "v">>, <<"p", "r">> >>,
             Order |-> 20, Chapters |-> 2]

\* lists the alias "pr" as well, as the second book of TestTable_DuplicateAliases does
Matthew == [OSIS |-> <<"M", "t">>, Name |-> <<"M", "a", "t", "t", "h", "e", "w">>,
            Aliases |-> << <<"m", "a", "t", "t">>, <<"p", "r">> >>,
            Order |-> 40, Chapters |-> 1]

Kings == [OSIS |-> <<"2", " ", "K">>, Name |-> <<"2", " ", "K", "i", "n", "g", "s">>,
          Aliases |-> << <<"I", "I", " ", "K", ".">> >>,
          Order |-> 12, Chapters |-> 3]

ValidBooks == {Proverbs, Matthew, Kings}

InvalidBooks ==
    {[Proverbs EXCEPT !.OSIS = <<>>], [Matthew EXCEPT !.Name = <<>>],
     [Kings EXCEPT !.Chapters = 0], [Proverbs EXCEPT !.Order = 0]}

SeqsUpTo(S, n) == UNION {[1..k -> S] : k \in 0..n}

BookLists == SeqsUpTo(ValidBooks \cup InvalidBooks, MaxBooks)

Heads == {<<"P", "r">>, <<"p", "r", "o", "v">>, <<"M", "t">>, <<"2", " ", "K">>,
          <<"I", "I", " ", "K">>, <<"X">>}

\* a range is written with a hyphen or with the en-dash U+2013
Separators == {Hyphen, <<EnDashRune>>}

VerseParts ==
    {<<>>}
        \cup {<<":">> \o Itoa(a) : a \in 0..MaxVerse}
        \cup {<<":">> \o Itoa(a) \o sep \o Itoa(b) :
                a \in 0..MaxVerse, b \in 0..MaxVerse, sep \in Separators}

Tails == {Itoa(c) \o v : c \in 0..MaxChapter, v \in VerseParts}

\* tails with a second ':', as in the cross-chapter range "15:1-16:1"
CrossChapterTails ==
    {<<"1", ":">> \o Itoa(a) \o sep \o <<"2", ":", "1">> : a \in 1..MaxVerse, sep \in Separators}
        \cup {<<"1", ":", "1", ":", "1">>}

\* tails that are not of the form chapter, chapter:verse or chapter:verse-verse
MalformedTails ==
    {<<"x">>, <<"x", "1">>, <<":", "1">>, <<"-", "1">>, <<"1", "x">>, <<"1", "-", "2">>,
     <<"1", ":">>, <<"1", ":", "x">>, <<"1", ":", "+", "1">>, <<"1", ":", "-", "1">>,
     <<"1", ":", "1", "-">>, <<"1", ":", "1", "-", "x">>, <<"1", ":", "x", "-", "1">>,
     <<"1", ":", "1", "-", "2", "-", "2">>,
     <<"1", ":", "1", EnDashRune, "2", EnDashRune, "2">>}

\* a chapter alone
ChapterOnly == {Itoa(c) : c \in 0..MaxChapter}

\* references written with single spaces, references with a cross-chapter or
\* malformed tail, and inputs with fewer than two fields
Inputs ==
    {h \o <<" ">> \o t : h \in Heads, t \in Tails}
        \cup {h \o <<" ">> \o t : h \in {<<"P", "r">>, <<"X">>}, t \in CrossChapterTails}
        \cup {<<"P", "r", " ">> \o t : t \in MalformedTails}
        \cup {<<>>, <<" ">>, <<"\t", "\n">>} \cup Heads \cup ChapterOnly

\* the hyphens of str written as U+2013 and the U+2013 of str written as hyphens
SwapDash(str) ==
    [i \in 1..Len(str) |-> IF str[i] = "-" THEN EnDashRune
                           ELSE IF str[i] = EnDashRune THEN "-" ELSE str[i]]

RECURSIVE LastSpace(_, _)
LastSpace(str, i) ==
    IF i = 0 \/ IsSpace(str[i]) THEN i ELSE LastSpace(str, i - 1)

\* the designator of a trimmed reference: everything before its last field
HeadLen(str) == LastSpace(str, Len(str))

ToggleCase(c) == IF IsUpper(c) THEN LowerOf(c) ELSE UpperOf(c)

\* str with the letter case of its designator changed
CaseVariants(str) ==
    ({[i \in 1..Len(str) |-> IF i = k THEN ToggleCase(str[i]) ELSE str[i]] :
            k \in 1..HeadLen(str)}
        \cup {[i \in 1..Len(str) |-> IF i <= HeadLen(str) THEN UpperOf(str[i]) ELSE str[i]],
              [i \in 1..Len(str) |-> IF i <= HeadLen(str) THEN LowerOf(str[i]) ELSE str[i]]})
    \ {str}

InsertAt(str, k, c) == SubSeq(str, 1, k) \o <<c>> \o Drop(str, k)

\* str with white space added in front, at the end, or to a white space run
SpaceVariants(str) ==
    {<<c>> \o str : c \in {" ", "\t"}}
        \cup {str \o <<c>> : c \in {" ", "\t"}}
        \cup {InsertAt(str, k, c) : k \in {i \in 1..Len(str) : IsSpace(str[i])},
                                    c \in {" ", "\t"}}

(***************************************************************************)
(* The calls                                                               *)
(***************************************************************************)
Init ==
    /\ books = <<>>
    /\ tbl = Nil
    /\ tblErr = Nil
    /\ s = <<>>
    /\ ref = Nil
    /\ err = Nil
    /\ prev = Nil
    /\ out = Nil
    /\ mode = FormatCanonical
    /\ op = "Init"

\* tbl, err := NewTable(bs), once, at startup
CallNewTable ==
    /\ op = "Init"
    /\ \E bs \in BookLists :
        /\ books' = bs
        /\ Bind(NewTable(bs), LAMBDA res : tbl' = res.tbl /\ tblErr' = res.err)
    /\ op' = "NewTable"
    /\ UNCHANGED <<s, ref, err, prev, out, mode>>

\* the state after ref, err := Parse(str, tbl), the call before it being before
Parsed(str, before, name) ==
    /\ ~IsNil(tbl)
    /\ s' = str
    /\ Bind(Parse(str, tbl[1]), LAMBDA res : ref' = res.ref /\ err' = res.err)
    /\ prev' = before
    /\ out' = Nil
    /\ op' = name
    /\ UNCHANGED <<books, tbl, tblErr, mode>>

ThisCall == Ptr([s |-> s, ref |-> ref, err |-> err])

IsParseCall == op \in {"Parse", "ParseDashVariant", "ParseCaseVariant",
                       "ParseSpaceVariant", "ParseFormatted"}

\* Parse of a fresh input.  Parse reads its argument and the table only, so
\* a fresh call after other calls reaches no state this one does not reach.
CallParse ==
    /\ op = "NewTable"
    /\ \E str \in Inputs : Parsed(str, Nil, "Parse")

\* Parse of the last input with the other dash
CallParseDashVariant ==
    /\ op = "Parse"
    /\ SwapDash(s) # s
    /\ Parsed(SwapDash(s), ThisCall, "ParseDashVariant")

\* Parse of the last input with the case of its designator changed
CallParseCaseVariant ==
    /\ op = "Parse"
    /\ \E str \in CaseVariants(s) : Parsed(str, ThisCall, "ParseCaseVariant")

\* Parse of the last input with more white space
CallParseSpaceVariant ==
    /\ op = "Parse"
    /\ \E str \in SpaceVariants(s) : Parsed(str, ThisCall, "ParseSpaceVariant")

\* references built by the caller, not by Parse: any id, chapter and verse range
ExternalRefs ==
    {[OSIS |-> o, Chapter |-> c, Verse |-> v] :
        o \in {<<"P", "r">>, <<"M", "t">>, <<"2", " ", "K">>, <<"p", "r">>, <<>>},
        c \in (0 - 1)..(MaxChapter + 1),
        v \in {Nil} \cup
              {Ptr([StartVerse |-> a, EndVerse |-> e]) :
                    a \in (0 - 1)..MaxVerse,
                    e \in {Nil} \cup {Ptr(b) : b \in (0 - 1)..MaxVerse}}}

\* the last fields of the inputs
TailTokens == Tails \cup CrossChapterTails \cup MalformedTails

\* out := the chapter, verse range and error the tail parser returns for a token
CallParseTail ==
    /\ op = "Init"
    /\ \E tail \in TailTokens :
        /\ s' = tail
        /\ out' = Ptr(parseTailChapterVerse(tail))
    /\ op' = "ParseTail"
    /\ UNCHANGED <<books, tbl, tblErr, ref, err, prev, mode>>

\* err := r.Validate(tbl) for a reference r built by the caller
CallValidate ==
    /\ op = "NewTable"
    /\ ~IsNil(tbl)
    /\ \E r \in ExternalRefs :
        /\ ref' = Ptr(r)
        /\ err' = Validate(r, tbl[1])
    /\ op' = "Validate"
    /\ UNCHANGED <<books, tbl, tblErr, s, prev, out, mode>>

\* out := ref.Format(f, tbl)
CallFormat ==
    /\ IsParseCall
    /\ ~IsNil(ref)
    /\ \E f \in {FormatOSIS, FormatHuman, FormatCanonical} :
        /\ out' = Ptr(Format(ref[1], f, tbl[1]))
        /\ mode' = f
    /\ op' = "Format"
    /\ UNCHANGED <<books, tbl, tblErr, s, ref, err, prev>>

\* out := ref.String()
CallString ==
    /\ IsParseCall
    /\ ~IsNil(ref)
    /\ out' = Ptr(String(ref[1]))
    /\ op' = "String"
    /\ UNCHANGED <<books, tbl, tblErr, s, ref, err, prev, mode>>

\* Parse of the string the last Format or String call returned
CallParseFormatted ==
    /\ op \in {"Format", "String"}
    /\ Parsed(out[1], ThisCall, "ParseFormatted")

Next ==
    \/ CallNewTable
    \/ CallParse
    \/ CallParseDashVariant
    \/ CallParseCaseVariant
    \/ CallParseSpaceVariant
    \/ CallParseTail
    \/ CallValidate
    \/ CallFormat
    \/ CallString
    \/ CallParseFormatted

Spec == Init /\ [][Next]_vars

(***************************************************************************)
(* Parse on the tables of the earlier NewTable, where ByAlias holds the    *)
(* aliases alone                                                           *)
(***************************************************************************)
\* tbl, err := NewTable(bs) with the earlier NewTable
CallNewTablePre102 ==
    /\ op = "Init"
    /\ \E bs \in BookLists :
        /\ books' = bs
        /\ Bind(NewTablePre102(bs), LAMBDA res : tbl' = res.tbl /\ tblErr' = res.err)
    /\ op' = "NewTable"
    /\ UNCHANGED <<s, ref, err, prev, out, mode>>

NextPre102 ==
    \/ CallNewTablePre102
    \/ CallParse

SpecPre102 == Init /\ [][NextPre102]_vars

(***************************************************************************)
(* The normalisers on their own: s is the argument and out the result      *)
(***************************************************************************)
NormTokens == {<<" ">>, <<".">>, <<"i">>, <<"I">>, <<"K">>, <<"-">>, <<"U+2019">>, EnDash}

RECURSIVE Concat(_)
Concat(parts) == IF Len(parts) = 0 THEN <<>> ELSE parts[1] \o Concat(Tail(parts))

NormInputs == {Concat(parts) : parts \in SeqsUpTo(NormTokens, MaxLen)}

InitNorm ==
    /\ books = <<>>
    /\ tbl = Nil
    /\ tblErr = Nil
    /\ s \in NormInputs
    /\ ref = Nil
    /\ err = Nil
    /\ prev = Nil
    /\ out = Nil
    /\ mode = FormatCanonical
    /\ op = "Input"

\* out := NormalizeAlias(s)
CallNormalizeAlias ==
    /\ op = "Input"
    /\ out' = Ptr(NormalizeAlias(s))
    /\ op' = "NormalizeAlias"
    /\ UNCHANGED <<books, tbl, tblErr, s, ref, err, prev, mode>>

\* out := NormalizeAlias(out), the argument and result before it kept in prev
CallNormalizeAliasAgain ==
    /\ op = "NormalizeAlias"
    /\ s' = out[1]
    /\ out' = Ptr(NormalizeAlias(out[1]))
    /\ prev' = Ptr([s |-> s, out |-> out[1]])
    /\ op' = "NormalizeAliasAgain"
    /\ UNCHANGED <<books, tbl, tblErr, ref, err, mode>>

\* out := NormalizeVerseRange(s)
CallNormalizeVerseRange ==
    /\ op = "Input"
    /\ out' = Ptr(NormalizeVerseRange(s))
    /\ op' = "NormalizeVerseRange"
    /\ UNCHANGED <<books, tbl, tblErr, s, ref, err, prev, mode>>

NextNorm ==
    \/ CallNormalizeAlias
    \/ CallNormalizeAliasAgain
    \/ CallNormalizeVerseRange

SpecNorm == InitNorm /\ [][NextNorm]_vars

(***************************************************************************)
(* Properties                                                              *)
(***************************************************************************)
\* C9: NormalizeAlias is idempotent: normalising the result of NormalizeAlias
\* once more returns it unchanged.
NormalizeAliasIdempotent ==
    op = "NormalizeAliasAgain" => out[1] = prev[1].out

\* str is head, one space, chapter c and the verse part v
IsReference(str, head, c, v) == str = head \o <<" ">> \o Itoa(c) \o v

\* head resolves in table t: through ByAlias, or as a literal key of ByOsis
Resolves(head, t) ==
    \/ NormalizeAlias(head) \in DOMAIN t.ByAlias
    \/ NormalizeAlias(head) \in DOMAIN t.ByOsis

\* head is the id or an alias of book b, up to normalisation
Designates(head, b) ==
    \/ NormalizeAlias(head) = NormalizeAlias(b.OSIS)
    \/ \E i \in 1..Len(b.Aliases) : NormalizeAlias(head) = NormalizeAlias(b.Aliases[i])

\* two calls of Parse ended alike: the same reference, or an error both times
SameOutcome(ref1, err1, ref2, err2) ==
    \/ ~IsNil(ref1) /\ ~IsNil(ref2) /\ ref1 = ref2 /\ IsNil(err1) /\ IsNil(err2)
    \/ IsNil(ref1) /\ IsNil(ref2) /\ ~IsNil(err1) /\ ~IsNil(err2)

\* the canonical string of reference r, its range written with the en-dash U+2013
CanonicalText(r) ==
    IF IsNil(r.Verse) THEN r.OSIS \o <<" ">> \o Itoa(r.Chapter)
    ELSE IF IsNil(r.Verse[1].EndVerse)
        THEN r.OSIS \o <<" ">> \o Itoa(r.Chapter) \o <<":">> \o Itoa(r.Verse[1].StartVerse)
    ELSE r.OSIS \o <<" ">> \o Itoa(r.Chapter) \o <<":">> \o Itoa(r.Verse[1].StartVerse)
            \o <<EnDashRune>> \o Itoa(r.Verse[1].EndVerse[1])

\* C1: round trip: when Parse succeeded with reference r, Parse of
\* r.Format(FormatCanonical, nil) succeeds too and returns the same OSIS,
\* Chapter and Verse.
RoundTripCanonical ==
    (/\ op = "ParseFormatted"
     /\ ~IsNil(prev[1].ref)
     /\ s = Format(prev[1].ref[1], FormatCanonical, tbl[1]))
        => (~IsNil(ref) /\ IsNil(err) /\ ref = prev[1].ref)

\* C2: dash equivalence: for a resolvable book, "<book> <ch>:<a>-<b>" and the
\* same reference written with the en-dash U+2013 have the same outcome: the
\* same reference with Verse{a, b}, or an error of the same kind.
DashEquivalence ==
    op = "ParseDashVariant" =>
        \A h \in Heads, c \in 0..MaxChapter, a \in 0..MaxVerse, b \in 0..MaxVerse :
            (/\ Resolves(h, tbl[1])
             /\ IsReference(prev[1].s, h, c, <<":">> \o Itoa(a) \o Hyphen \o Itoa(b))
             /\ IsReference(s, h, c, <<":">> \o Itoa(a) \o <<EnDashRune>> \o Itoa(b)))
                => \/ /\ ~IsNil(ref)
                      /\ ref = prev[1].ref
                      /\ ref[1].Verse = Ptr([StartVerse |-> a, EndVerse |-> Ptr(b)])
                   \/ /\ IsNil(ref) /\ IsNil(prev[1].ref)
                      /\ ~IsNil(err) /\ ~IsNil(prev[1].err)
                      /\ err[1].Kind = prev[1].err[1].Kind

\* C3: canonical rendering: for a reference r returned by Parse, r.String()
\* equals r.Format(FormatCanonical, nil) and is "<OSIS> <chapter>",
\* "<OSIS> <chapter>:<start>" or "<OSIS> <chapter>:<start>-<end>" with the
\* single en-dash character U+2013 in the place of "-".
CanonicalRendering ==
    op = "String" =>
        /\ out[1] = Format(ref[1], FormatCanonical, tbl[1])
        /\ out[1] = CanonicalText(ref[1])

\* C4: case and white space insensitivity: an input and the same input with
\* the letter case of its book designator changed, or with white space added
\* in front, at the end or to the runs between its fields, have the same
\* outcome: the same OSIS, Chapter and Verse, or a failure both times.
CaseSpaceInsensitive ==
    op \in {"ParseCaseVariant", "ParseSpaceVariant"} =>
        SameOutcome(prev[1].ref, prev[1].err, ref, err)

\* a successful parse of a verse range whose designator was written in another case
CaseSpaceInsensitiveWitness ==
    /\ op = "ParseCaseVariant"
    /\ s # prev[1].s
    /\ ToLower(s) = ToLower(prev[1].s)
    /\ ~IsNil(ref)
    /\ ~IsNil(ref[1].Verse)
    /\ ref = prev[1].ref

\* C5: table construction: after NewTable(books) succeeded, the normalised
\* OSIS and every normalised alias of every book are keys of ByAlias mapped to
\* that book's OSIS, and every value of ByAlias is a key of ByOsis.
TableConstruction ==
    ~IsNil(tbl) =>
        /\ \A i \in 1..Len(books) :
            /\ NormalizeAlias(books[i].OSIS) \in DOMAIN tbl[1].ByAlias
            /\ tbl[1].ByAlias[NormalizeAlias(books[i].OSIS)] = books[i].OSIS
            /\ \A j \in 1..Len(books[i].Aliases) :
                /\ NormalizeAlias(books[i].Aliases[j]) \in DOMAIN tbl[1].ByAlias
                /\ tbl[1].ByAlias[NormalizeAlias(books[i].Aliases[j])] = books[i].OSIS
        /\ \A k \in DOMAIN tbl[1].ByAlias : tbl[1].ByAlias[k] \in DOMAIN tbl[1].ByOsis

\* C6: unknown entity: Parse of a designator that resolves neither through
\* ByAlias nor as a key of ByOsis, followed by a well-formed chapter[:verse]
\* token, fails with an error of kind KindUnknownBook.
UnknownEntity ==
    op = "Parse" =>
        \A h \in Heads, tail \in Tails :
            (s = h \o <<" ">> \o tail /\ ~Resolves(h, tbl[1]))
                => (IsNil(ref) /\ ~IsNil(err) /\ err[1].Kind = KindUnknownBook)

\* C7: chapter bounds: for a book b of the table and a chapter number c,
\* Parse("<alias of b> <c>") succeeds exactly when 1 <= c <= b.Chapters, and
\* fails with an error of kind KindInvalidChapter otherwise.
ChapterBounds ==
    op = "Parse" =>
        \A i \in 1..Len(books), h \in Heads, c \in 0..MaxChapter :
            (Designates(h, books[i]) /\ IsReference(s, h, c, <<>>))
                => IF 1 <= c /\ c <= books[i].Chapters
                   THEN ~IsNil(ref) /\ IsNil(err)
                   ELSE IsNil(ref) /\ ~IsNil(err) /\ err[1].Kind = KindInvalidChapter

\* C8: range direction: for a resolvable book, a chapter of that book and
\* verse numbers a, b >= 1, Parse of the range a-b (hyphen or en-dash U+2013)
\* succeeds with Verse{a, b} when b >= a and fails with an error of kind
\* KindInvalidVerse when b < a.
RangeDirection ==
    IsParseCall =>
        \A h \in Heads, c \in 1..MaxChapter, a \in 1..MaxVerse, b \in 1..MaxVerse,
           sep \in Separators :
            (/\ IsReference(s, h, c, <<":">> \o Itoa(a) \o sep \o Itoa(b))
             /\ NormalizeAlias(h) \in DOMAIN tbl[1].ByAlias
             /\ c <= tbl[1].ByOsis[tbl[1].ByAlias[NormalizeAlias(h)]].Chapters)
                => IF b >= a
                   THEN /\ ~IsNil(ref)
                        /\ ref[1].Verse = Ptr([StartVerse |-> a, EndVerse |-> Ptr(b)])
                   ELSE IsNil(ref) /\ ~IsNil(err) /\ err[1].Kind = KindInvalidVerse

\* the fields of a book that make NewTable reject it
InvalidRecord(b) == Len(b.OSIS) = 0 \/ Len(b.Name) = 0 \/ b.Chapters < 1

\* C10: NewTable rejects invalid records: when a book of the input has an
\* empty OSIS, an empty Name or Chapters < 1, NewTable returns an error and a
\* nil table; no table it returns holds such a book.
NewTableRejectsInvalid ==
    op \notin {"Init", "ParseTail"} =>
        /\ (\E i \in 1..Len(books) : InvalidRecord(books[i]))
                => (IsNil(tbl) /\ ~IsNil(tblErr))
        /\ ~IsNil(tbl) => \A k \in DOMAIN tbl[1].ByOsis : ~InvalidRecord(tbl[1].ByOsis[k])
        /\ IsNil(tbl) # IsNil(tblErr)

\* NewTable has rejected a list whose first book is valid and whose second is not
NewTableRejectsInvalidWitness ==
    /\ op = "NewTable"
    /\ Len(books) >= 2
    /\ ~InvalidRecord(books[1])
    /\ InvalidRecord(books[2])
    /\ IsNil(tbl)
    /\ ~IsNil(tblErr)
    /\ tblErr[1].Kind = KindInvalidBook

\* the number of white space separated fields of str
FieldCount(str) == Len(Fields(str))

\* C11: empty and single-field input: Parse of an empty or white space only
\* string, and of any string with fewer than two white space separated fields,
\* fails with an error of kind KindParse, whatever the table holds; the error
\* it wraps is of kind KindParse too.
EmptyOrSingleField ==
    (IsParseCall /\ FieldCount(s) < 2) =>
        /\ IsNil(ref)
        /\ ~IsNil(err)
        /\ err[1].Kind = KindParse
        /\ ~IsNil(err[1].Cause)
        /\ err[1].Cause[1].Kind = KindParse

\* a designator alone has been parsed against a table that resolves it
EmptyOrSingleFieldWitness ==
    /\ IsParseCall
    /\ FieldCount(s) = 1
    /\ Resolves(s, tbl[1])
    /\ IsNil(ref)
    /\ err[1].Kind = KindParse

\* the last white space separated field of str, the empty string if there is none
LastField(str) == IF FieldCount(str) = 0 THEN <<>> ELSE Fields(str)[FieldCount(str)]

\* the number of times the character c occurs in str
CountOf(str, c) == Cardinality({i \in 1..Len(str) : str[i] = c})

\* C12: cross-chapter ranges are rejected: Parse of an input whose tail holds
\* a second ':' fails; no such input yields a reference.
CrossChapterRejected ==
    (IsParseCall /\ CountOf(LastField(s), ":") >= 2) =>
        (IsNil(ref) /\ ~IsNil(err))

\* a cross-chapter range of a book of the table, both chapters being chapters
\* of the book, has been parsed and rejected
CrossChapterRejectedWitness ==
    /\ IsParseCall
    /\ CountOf(LastField(s), ":") = 2
    /\ \E sep \in Separators : Contains(LastField(s), sep)
    /\ FieldCount(s) = 2
    /\ Resolves(Fields(s)[1], tbl[1])
    /\ <<"P", "r">> \in DOMAIN tbl[1].ByOsis
    /\ tbl[1].ByOsis[<<"P", "r">>].Chapters >= 2
    /\ IsNil(ref)
    /\ ~IsNil(err)

\* reference r names a book of table t, a chapter of that book, and a verse or
\* a range of verses that starts at 1 or later and does not run backwards
WellFormedRef(r, t) ==
    /\ r.OSIS \in DOMAIN t.ByOsis
    /\ 1 <= r.Chapter
    /\ r.Chapter <= t.ByOsis[r.OSIS].Chapters
    /\ ~IsNil(r.Verse) =>
        /\ r.Verse[1].StartVerse >= 1
        /\ ~IsNil(r.Verse[1].EndVerse) => r.Verse[1].EndVerse[1] >= r.Verse[1].StartVerse

\* C13: Parse never returns an invalid or partial reference: it returns a nil
\* reference with an error, or a reference r with a nil error where r.OSIS is
\* a key of ByOsis, r.Chapter is a chapter of that book, and the verse, if
\* present, starts at 1 or later and does not end before it starts, that is,
\* r.Validate(tbl) returns nil.
NeverPartial ==
    IsParseCall =>
        \/ IsNil(ref) /\ ~IsNil(err)
        \/ /\ ~IsNil(ref)
           /\ IsNil(err)
           /\ WellFormedRef(ref[1], tbl[1])
           /\ IsNil(Validate(ref[1], tbl[1]))

\* Parse has returned a reference with a range of more than one verse
NeverPartialWitness ==
    /\ IsParseCall
    /\ ~IsNil(ref)
    /\ IsNil(err)
    /\ ~IsNil(ref[1].Verse)
    /\ ~IsNil(ref[1].Verse[1].EndVerse)
    /\ ref[1].Verse[1].EndVerse[1] > ref[1].Verse[1].StartVerse

\* the four checks of a reference r against table t, each on its own
UnknownId(r, t) == r.OSIS \notin DOMAIN t.ByOsis

ChapterOutOfRange(r, t) == r.Chapter < 1 \/ r.Chapter > t.ByOsis[r.OSIS].Chapters

StartBelowOne(r) == ~IsNil(r.Verse) /\ r.Verse[1].StartVerse < 1

RangeReversed(r) ==
    /\ ~IsNil(r.Verse)
    /\ ~IsNil(r.Verse[1].EndVerse)
    /\ r.Verse[1].EndVerse[1] < r.Verse[1].StartVerse

\* e is a non-nil error of kind k
IsErrorOfKind(e, k) == ~IsNil(e) /\ e[1].Kind = k

\* C14: Validate check order: for any reference, also one built by the
\* caller, Validate reports the first failing check in the order (a) OSIS not
\* in ByOsis: KindUnknownBook, (b) chapter below 1 or above the book's
\* Chapters: KindInvalidChapter, (c) verse present with start below 1:
\* KindInvalidVerse, (d) end present and below start: KindInvalidVerse; it
\* returns nil exactly when none of the four fails.
ValidateOrder ==
    op = "Validate" =>
        /\ UnknownId(ref[1], tbl[1]) => IsErrorOfKind(err, KindUnknownBook)
        /\ (~UnknownId(ref[1], tbl[1]) /\ ChapterOutOfRange(ref[1], tbl[1]))
                => IsErrorOfKind(err, KindInvalidChapter)
        /\ (/\ ~UnknownId(ref[1], tbl[1])
            /\ ~ChapterOutOfRange(ref[1], tbl[1])
            /\ (StartBelowOne(ref[1]) \/ RangeReversed(ref[1])))
                => IsErrorOfKind(err, KindInvalidVerse)
        /\ IsNil(err) <=>
                (/\ ~UnknownId(ref[1], tbl[1])
                 /\ ~ChapterOutOfRange(ref[1], tbl[1])
                 /\ ~StartBelowOne(ref[1])
                 /\ ~RangeReversed(ref[1]))

\* Validate has met a reference that fails the check of the chapter and both
\* checks of the verse, and has reported the chapter
ValidateOrderWitness ==
    /\ op = "Validate"
    /\ ~UnknownId(ref[1], tbl[1])
    /\ ChapterOutOfRange(ref[1], tbl[1])
    /\ StartBelowOne(ref[1])
    /\ RangeReversed(ref[1])
    /\ IsErrorOfKind(err, KindInvalidChapter)

\* the characters that separate the two ends of a range: hyphen and en-dash U+2013
SeparatorChars == {"-", EnDashRune}

\* str split at every separator character
RECURSIVE SplitAtSeparators(_)
SplitAtSeparators(str) ==
    IF \A i \in 1..Len(str) : str[i] \notin SeparatorChars THEN <<str>>
    ELSE Bind(CHOOSE i \in 1..Len(str) :
                /\ str[i] \in SeparatorChars
                /\ \A j \in 1..(i - 1) : str[j] \notin SeparatorChars,
              LAMBDA i : <<SubSeq(str, 1, i - 1)>> \o SplitAtSeparators(Drop(str, i)))

\* str is an integer in decimal notation
IsInteger(str) == Atoi(str).ok

TailFailure(kind) == [ok |-> FALSE, kind |-> kind, chapter |-> 0, verse |-> Nil]

TailSuccess(chapter, verse) ==
    [ok |-> TRUE, kind |-> KindParse, chapter |-> chapter, verse |-> verse]

\* the verse segment seg of a tail with chapter c, classified
VerseSegmentClass(c, seg) ==
    Bind(SplitAtSeparators(seg), LAMBDA parts :
        IF Len(parts) = 1 THEN
            IF ~IsInteger(seg) THEN TailFailure(KindInvalidVerse)
            ELSE TailSuccess(c, Ptr([StartVerse |-> Atoi(seg).val, EndVerse |-> Nil]))
        ELSE IF Len(parts) # 2 THEN TailFailure(KindParse)
        ELSE IF ~IsInteger(parts[1]) \/ ~IsInteger(parts[2])
            THEN TailFailure(KindInvalidVerse)
        ELSE TailSuccess(c, Ptr([StartVerse |-> Atoi(parts[1]).val,
                                 EndVerse   |-> Ptr(Atoi(parts[2]).val)])))

\* the non-empty tail token tail, classified
TailClass(tail) ==
    IF ~IsDigit(tail[1]) THEN TailFailure(KindInvalidChapter)
    ELSE Bind(DigitRun(tail, 0), LAMBDA i :
        IF i = Len(tail) THEN TailSuccess(Atoi(tail).val, Nil)
        ELSE IF tail[i + 1] # ":" THEN TailFailure(KindParse)
        ELSE VerseSegmentClass(Atoi(SubSeq(tail, 1, i)).val, Drop(tail, i + 1)))

\* C15: tail classification: for a tail token with at most one ':', the tail
\* parser fails with KindInvalidChapter when the token does not begin with a
\* digit, and with KindParse when the character after the leading digits is
\* not ':'; when the verse segment holds the range separator (hyphen or
\* en-dash U+2013) it fails with KindParse unless the separator splits the
\* segment into exactly two parts, and with KindInvalidVerse when a part is
\* not an integer; without a separator it fails with KindInvalidVerse when
\* the segment is not an integer; otherwise it returns the chapter and the
\* verse range, whatever the direction of the range.
TailClassification ==
    (op = "ParseTail" /\ CountOf(s, ":") <= 1) =>
        IF TailClass(s).ok
        THEN /\ IsNil(out[1].err)
             /\ out[1].chapter = TailClass(s).chapter
             /\ out[1].verse = TailClass(s).verse
        ELSE IsErrorOfKind(out[1].err, TailClass(s).kind)

\* C16: literal-id fallback: for a table whose ByOsis holds a book with id X
\* and whose ByAlias has no entry for the normalised form of X, Parse("X <c>")
\* with 1 <= c <= the book's Chapters succeeds with OSIS = X.
LiteralIdFallback ==
    op = "Parse" =>
        \A x \in DOMAIN tbl[1].ByOsis, c \in 1..MaxChapter :
            (/\ IsReference(s, x, c, <<>>)
             /\ c <= tbl[1].ByOsis[x].Chapters
             /\ NormalizeAlias(x) \notin DOMAIN tbl[1].ByAlias)
                => (~IsNil(ref) /\ IsNil(err) /\ ref[1].OSIS = x)

\* book number i of the input lists an alias whose normalised form is key
ListsAlias(i, key) ==
    \E j \in 1..Len(books[i].Aliases) : NormalizeAlias(books[i].Aliases[j]) = key

\* the normalised aliases that two books of the input list
DuplicateAliases ==
    {key \in UNION {{NormalizeAlias(books[i].Aliases[j]) : j \in 1..Len(books[i].Aliases)} :
                        i \in 1..Len(books)} :
        \E i1 \in 1..Len(books), i2 \in 1..Len(books) :
            i1 < i2 /\ ListsAlias(i1, key) /\ ListsAlias(i2, key)}

\* the last book of the input that lists key
LastListing(key) ==
    CHOOSE i \in 1..Len(books) :
        ListsAlias(i, key) /\ \A i2 \in (i + 1)..Len(books) : ~ListsAlias(i2, key)

HeadOf(str) == Join(SubSeq(Fields(str), 1, FieldCount(str) - 1), <<" ">>)

\* the key of ByOsis the designator head leads to: through ByAlias, or literally
ResolvedKey(head, t) ==
    IF NormalizeAlias(head) \in DOMAIN t.ByAlias THEN t.ByAlias[NormalizeAlias(head)]
    ELSE NormalizeAlias(head)

\* the reference str stands for in table t, before any validation
ReferenceOf(str, t) ==
    [OSIS    |-> t.ByOsis[ResolvedKey(HeadOf(str), t)].OSIS,
     Chapter |-> parseTailChapterVerse(LastField(str)).chapter,
     Verse   |-> parseTailChapterVerse(LastField(str)).verse]

\* C18: Parse agrees with Validate: for an input whose head resolves to a book
\* and whose tail parses to a chapter and an optional verse or verse range,
\* Parse fails exactly when Validate fails on the reference of the resolved
\* id, the chapter and the verse, and the error of Parse has the kind of the
\* error of Validate; so "Prov 0:0" is reported as KindInvalidChapter.
ParseAgreesWithValidate ==
    (/\ op = "Parse"
     /\ FieldCount(s) >= 2
     /\ ResolvedKey(HeadOf(s), tbl[1]) \in DOMAIN tbl[1].ByOsis
     /\ IsNil(parseTailChapterVerse(LastField(s)).err))
        => /\ IsNil(ref) <=> ~IsNil(Validate(ReferenceOf(s, tbl[1]), tbl[1]))
           /\ IsNil(ref) =>
                /\ ~IsNil(err)
                /\ ~IsNil(Validate(ReferenceOf(s, tbl[1]), tbl[1]))
                /\ err[1].Kind = Validate(ReferenceOf(s, tbl[1]), tbl[1])[1].Kind

====
